---- MODULE Spec2Model ----
(***************************************************************************)
(* State-machine model of main.py, the rbd-to-rbd backup worker: one run   *)
(* of the script classifies the source/destination inventory, gates on     *)
(* cluster health and scrubbing, streams a full or an incremental copy     *)
(* and rolls the snapshots, with `cleanup` registered as the SIGINT and    *)
(* SIGTERM handler and called from the `finally` block.                    *)
(*                                                                         *)
(* Every external command (rbd, ceph, ssh, the shell pipeline) is outside  *)
(* the script: its exit status is an input of the step that runs it, drawn *)
(* from ExitCodes, and the script reacts to it as main.py does.            *)
(***************************************************************************)
EXTENDS Integers, Sequences, FiniteSets, TLC

\* ------------------------------------------------------------- bounds
\* runs of the script chained on the same two clusters
MaxRuns == 2
\* signals (SIGINT or SIGTERM) delivered to one run
MaxSignals == 1
\* random characters of a snapshot name (16 in main.py:165)
HexLen == 1
\* polls one wait loop answers with "keep waiting" before the count stops
MaxPolls == 2

\* ------------------------------------------------------- program values
BACKUPMODE_INITIAL == 1
BACKUPMODE_INCREMENTAL == 2

\* the value of --snapshot-prefix, as a sequence of characters
SNAPSHOT_PREFIX == <<"p">>
\* the alphabet of random.choice, cut to two characters
HexChars == {"a", "b"}

source_image == "image_name"
destination_image == "backup_test_destination"
\* another image of the same pool, never touched by the script
OtherImage == "other"

\* '' and execute_on_remote_command: where a command runs
Local == "local"
Remote == "remote"
Sites == {Local, Remote}

ExitCodes == {0, 1}

\* args.wait_healthy: store_true with default=True, so it is always True
wait_healthy == TRUE

\* snapshot names found on the clusters before the first run: two with the
\* prefix at the start, one with the prefix elsewhere
InitNames == {<<"p", "a">>, <<"p", "b">>, <<"x", "p">>}

NoName == <<>>

\* ------------------------------------------------------------- helpers
Min(a, b) == IF a < b THEN a ELSE b

\* name[start:end] of Python, for 0 <= start
Slice(s, start, end) == SubSeq(s, start + 1, Min(end, Len(s)))

\* str.startswith(prefix, start, end): the slice starts with the prefix
startswith(name, prefix, start, end) ==
    LET sl == Slice(name, start, end)
    IN  /\ Len(sl) >= Len(prefix)
        /\ SubSeq(sl, 1, Len(prefix)) = prefix

\* variant of the names create_ceph_rbd_snapshot draws that leaves out the
\* prefix
NamesWithoutPrefix == {h : h \in [1..HexLen -> HexChars]}

\* the names create_ceph_rbd_snapshot can draw
RandomNames == {SNAPSHOT_PREFIX \o h : h \in [1..HexLen -> HexChars]}

\* sequences without repetition over S, of length at most n
RECURSIVE DistinctSeqs(_, _)
DistinctSeqs(S, n) ==
    IF n = 0 THEN {<<>>}
    ELSE LET shorter == DistinctSeqs(S, n - 1)
         IN  shorter \cup
             {Append(q, x) : <<q, x>> \in
                 {<<q, x>> \in shorter \X S :
                     \A i \in 1..Len(q) : q[i] # x}}

Range(s) == {s[i] : i \in 1..Len(s)}

\* variant of the snapshot removal that removes the newest snapshot of the
\* listing instead of the named one
remove_newest(s, n) == SubSeq(s, 1, Len(s) - 1)

\* variant of the snapshot removal that reports success and removes nothing
remove_nothing(s, n) == s

RemoveName(s, n) == SelectSeq(s, LAMBDA x : x # n)

\* a name is owned by the tool when the configured prefix is its beginning
Owned(name) ==
    /\ Len(name) >= Len(SNAPSHOT_PREFIX)
    /\ \A i \in 1..Len(SNAPSHOT_PREFIX) : name[i] = SNAPSHOT_PREFIX[i]

OwnedIn(listing) == {n \in Range(listing) : Owned(n)}

\* ------------------------------------------------- inventory functions
\* ceph_rbd_image_exists: image in get_ceph_rbd_images(pool)
ceph_rbd_image_exists(images, image) == image \in images

\* variant of count_previous_ceph_rbd_snapsots that forgets the prefix test
\* and counts every snapshot of the listing
count_every_snapshot(listing) == Len(listing)

\* count_previous_ceph_rbd_snapsots: the snapshots of the listing whose
\* name starts with SNAPSHOT_PREFIX
RECURSIVE count_previous_ceph_rbd_snapsots(_)
count_previous_ceph_rbd_snapsots(listing) ==
    IF listing = <<>> THEN 0
    ELSE (IF startswith(Head(listing), SNAPSHOT_PREFIX, 0, Len(SNAPSHOT_PREFIX))
          THEN 1 ELSE 0)
         + count_previous_ceph_rbd_snapsots(Tail(listing))

\* variant of get_previous_ceph_rbd_snapshot_name that forgets the prefix
\* test and returns the first snapshot of the listing
first_snapshot_name(listing) ==
    IF listing = <<>> THEN NoName ELSE Head(listing)

\* get_previous_ceph_rbd_snapshot_name: the first snapshot of the listing
\* whose name starts with SNAPSHOT_PREFIX; NoName stands for the
\* RuntimeError raised when there is none
RECURSIVE get_previous_ceph_rbd_snapshot_name(_)
get_previous_ceph_rbd_snapshot_name(listing) ==
    IF listing = <<>> THEN NoName
    ELSE IF startswith(Head(listing), SNAPSHOT_PREFIX, 0, Len(SNAPSHOT_PREFIX))
         THEN Head(listing)
         ELSE get_previous_ceph_rbd_snapshot_name(Tail(listing))

ModeResult(err, m, base) == [error |-> err, mode |-> m, base_snapshot |-> base]

\* variant of get_backup_mode without the test of line 148 (more than one
\* snapshot)
get_backup_mode_without_148(src_images, dst_images, listing) ==
    LET source_exists == ceph_rbd_image_exists(src_images, source_image)
        destination_exists == ceph_rbd_image_exists(dst_images, destination_image)
        source_previous_snapshot_count == count_previous_ceph_rbd_snapsots(listing)
        previous == get_previous_ceph_rbd_snapshot_name(listing)
    IN  IF ~source_exists
        THEN ModeResult("source image does not exist", 0, NoName)
        ELSE IF source_previous_snapshot_count = 1 /\ ~destination_exists
        THEN ModeResult("source snapshot found but destination does not exist", 0, NoName)
        ELSE IF source_previous_snapshot_count = 0 /\ destination_exists
        THEN ModeResult("source snapshot not found but destination does exist", 0, NoName)
        ELSE IF source_previous_snapshot_count = 0 /\ ~destination_exists
        THEN ModeResult("", BACKUPMODE_INITIAL, NoName)
        ELSE IF previous = NoName
        THEN ModeResult("cannot determine ceph snapshot name", 0, NoName)
        ELSE ModeResult("", BACKUPMODE_INCREMENTAL, previous)

\* variant of get_backup_mode without the test of line 151 (one snapshot
\* but no destination)
get_backup_mode_without_151(src_images, dst_images, listing) ==
    LET source_exists == ceph_rbd_image_exists(src_images, source_image)
        destination_exists == ceph_rbd_image_exists(dst_images, destination_image)
        source_previous_snapshot_count == count_previous_ceph_rbd_snapsots(listing)
        previous == get_previous_ceph_rbd_snapshot_name(listing)
    IN  IF ~source_exists
        THEN ModeResult("source image does not exist", 0, NoName)
        ELSE IF source_previous_snapshot_count > 1
        THEN ModeResult("more than one snapshot", 0, NoName)
        ELSE IF source_previous_snapshot_count = 0 /\ destination_exists
        THEN ModeResult("source snapshot not found but destination does exist", 0, NoName)
        ELSE IF source_previous_snapshot_count = 0 /\ ~destination_exists
        THEN ModeResult("", BACKUPMODE_INITIAL, NoName)
        ELSE IF previous = NoName
        THEN ModeResult("cannot determine ceph snapshot name", 0, NoName)
        ELSE ModeResult("", BACKUPMODE_INCREMENTAL, previous)

\* get_backup_mode, given the three listings its queries return
get_backup_mode(src_images, dst_images, listing) ==
    LET source_exists == ceph_rbd_image_exists(src_images, source_image)
        destination_exists == ceph_rbd_image_exists(dst_images, destination_image)
        source_previous_snapshot_count == count_previous_ceph_rbd_snapsots(listing)
        previous == get_previous_ceph_rbd_snapshot_name(listing)
    IN  IF ~source_exists
        THEN ModeResult("source image does not exist", 0, NoName)
        ELSE IF source_previous_snapshot_count > 1
        THEN ModeResult("more than one snapshot", 0, NoName)
        ELSE IF source_previous_snapshot_count = 1 /\ ~destination_exists
        THEN ModeResult("source snapshot found but destination does not exist", 0, NoName)
        ELSE IF source_previous_snapshot_count = 0 /\ destination_exists
        THEN ModeResult("source snapshot not found but destination does exist", 0, NoName)
        ELSE IF source_previous_snapshot_count = 0 /\ ~destination_exists
        THEN ModeResult("", BACKUPMODE_INITIAL, NoName)
        ELSE IF previous = NoName
        THEN ModeResult("cannot determine ceph snapshot name", 0, NoName)
        ELSE ModeResult("", BACKUPMODE_INCREMENTAL, previous)

\* variant of exec_raw that raises only for a negative return code (a
\* process killed by a signal)
exec_raw_raises_if_negative(returncode) == returncode < 0

\* exec_raw: a non-zero return code raises RuntimeError
exec_raw_raises(returncode) == returncode # 0

\* create_ceph_rbd_snapshot: a non-zero code of `rbd snap create` raises
create_raises(code) == code # 0

\* The return code Popen(shell=True) sees for the transfer command
\*   /bin/bash -c set -o pipefail; ssh .. "rbd export .." | pv .. | rbd import ..
\* sh runs `/bin/bash -c set` with -o and pipefail as its positional
\* parameters, then, after the `;`, the pipeline in sh itself, where no
\* pipefail option is in force: the status is that of the last stage.
PipelineReturnCode(stages) == stages[Len(stages)]

\* set_ceph_scrubbing(enable, site): `ceph osd <action> nodeep-scrub` then
\* `ceph osd <action> noscrub`, with action = 'set' if enable else 'unset'.
\* codes are the exit codes of the two commands; the second runs only
\* when the first returned 0.  The result is the site's flags.
set_ceph_scrubbing(f, enable, codes) ==
    LET action == IF enable THEN "set" ELSE "unset"
        first == [f EXCEPT !.nodeep_scrub = (action = "set")]
    IN  IF exec_raw_raises(codes[1]) THEN f
        ELSE IF exec_raw_raises(codes[2]) THEN first
        ELSE [first EXCEPT !.noscrub = (action = "set")]

\* whether set_ceph_scrubbing raised
set_ceph_scrubbing_raises(codes) ==
    exec_raw_raises(codes[1]) \/ exec_raw_raises(codes[2])

\* ---------------------------------------------------------------- state
VARIABLES
    no_scrubbing,   \* args.no_scrubbing
    srcPool,        \* images of the source pool (remote cluster)
    dstPool,        \* images of the destination pool (local cluster)
    srcSnaps,       \* snapshots of the source image, in listing order
    dstSnaps,       \* snapshots of the destination image, in listing order
    flags,          \* per site: the osd flags nodeep-scrub and noscrub
    pc,             \* position of the script
    run,            \* number of the current run
    handlers,       \* cleanup is registered for SIGINT and SIGTERM
    sigs,           \* signals delivered to this run
    mode,           \* the result of get_backup_mode
    snapshot_new,   \* the snapshot created on the source by this run
    seen,           \* the listings get_backup_mode read
    stages,         \* exit codes of the transfer pipeline's stages
    returncode,     \* process.returncode of the transfer command, -1: none
    raised,         \* the exception that ended the try block
    exitStatus,     \* exit status of the process, -1 while it runs
    disabled,       \* sites on which set_ceph_scrubbing(False) was called
    reenabled,      \* sites on which set_ceph_scrubbing(True) was called since
    cleanupCalls,   \* calls of cleanup in this run
    maintCalls,     \* calls of cleanup that issued ceph osd commands
    createFailed,   \* a snapshot creation of this run failed
    dstCreated,     \* this run created a snapshot on the destination
    srcCreated,     \* the snapshot this run created on the source, if any
    removeFailed,   \* the removal of the base snapshot failed in this run
    cleanupFailed,  \* a call of cleanup raised in this run
    gateLog,        \* per site: the gate steps completed in this run, in order
    lastPoll,       \* what the last poll of the gate gave, until the next
                    \* command after it is run
    polls,          \* "keep waiting" answers counted in the current wait loop
    dstAtStart,     \* the destination's snapshots when this run started
    prev,           \* how the previous run ended
    chain           \* the first run found no owned snapshot and no destination,
                    \* or one owned snapshot and a destination, and every run
                    \* so far succeeded

inventory == <<srcPool, dstPool, srcSnaps, dstSnaps>>
locals == <<mode, snapshot_new, seen>>
transfer == <<stages, returncode>>
maint == <<disabled, reenabled>>
creation == <<createFailed, dstCreated>>
gate == <<gateLog, lastPoll, polls>>
history == <<dstAtStart, prev, chain>>
vars == <<no_scrubbing, srcPool, dstPool, srcSnaps, dstSnaps, flags, pc, run,
          handlers, sigs, mode, snapshot_new, seen, stages, returncode,
          raised, exitStatus, disabled, reenabled, cleanupCalls, maintCalls,
          createFailed, dstCreated, srcCreated, removeFailed, cleanupFailed,
          gateLog, lastPoll, polls, dstAtStart, prev, chain>>

NoMode == ModeResult("", 0, NoName)
NoSeen == [src_images |-> {}, dst_images |-> {}, listing |-> <<>>, read |-> FALSE]
ScrubbingOn == [nodeep_scrub |-> FALSE, noscrub |-> FALSE]
NoPrev == [ran |-> FALSE, ok |-> FALSE, transferFailed |-> FALSE,
           removeFailed |-> FALSE, created |-> NoName]

\* the state of a process that has just entered the try block (line 220)
RunStart ==
    /\ pc = "init"
    /\ handlers = FALSE
    /\ sigs = 0
    /\ mode = NoMode
    /\ snapshot_new = NoName
    /\ seen = NoSeen
    /\ stages = <<>>
    /\ returncode = -1
    /\ raised = "none"
    /\ exitStatus = -1
    /\ disabled = {}
    /\ reenabled = {}
    /\ cleanupCalls = 0
    /\ maintCalls = 0
    /\ createFailed = FALSE
    /\ dstCreated = FALSE
    /\ srcCreated = NoName
    /\ removeFailed = FALSE
    /\ cleanupFailed = FALSE
    /\ gateLog = [s \in Sites |-> <<>>]
    /\ lastPoll = "none"
    /\ polls = 0

Init ==
    /\ no_scrubbing \in BOOLEAN
    /\ srcPool \in {{OtherImage}, {source_image, OtherImage}}
    /\ dstPool \in {{}, {destination_image}}
    /\ srcSnaps \in IF source_image \in srcPool
                    THEN DistinctSeqs(InitNames, 3) ELSE {<<>>}
    /\ dstSnaps \in IF destination_image \in dstPool
                    THEN {<<>>, <<<<"p", "a">>>>} ELSE {<<>>}
    /\ flags = [s \in Sites |-> ScrubbingOn]
    /\ run = 1
    /\ RunStart
    /\ dstAtStart = dstSnaps
    /\ prev = NoPrev
    /\ chain = (/\ source_image \in srcPool
                /\ \/ OwnedIn(srcSnaps) = {} /\ destination_image \notin dstPool
                   \/ Cardinality(OwnedIn(srcSnaps)) = 1
                        /\ destination_image \in dstPool)

\* --------------------------------------------------------------- actions
\* an exception leaves the try block: the except clauses log it and the
\* script goes on to the finally block
Raise(kind) ==
    /\ pc' = "finally"
    /\ raised' = kind

\* the first statement after the gate (lines 239 and 250)
AfterGate ==
    IF mode.mode = BACKUPMODE_INITIAL THEN "full_transfer" ELSE "incr_snap_src"

\* lines 221-223: signal.signal(SIGINT, cleanup); signal.signal(SIGTERM, cleanup)
RegisterHandlers ==
    /\ pc = "init"
    /\ handlers' = TRUE
    /\ pc' = "classify"
    /\ UNCHANGED <<no_scrubbing, history, gate, srcCreated, removeFailed,
                   cleanupFailed, inventory, flags, run, sigs, locals, transfer,
                   raised, exitStatus, maint, cleanupCalls, maintCalls, creation>>

\* a signal before the handlers are registered: SIGINT raises
\* KeyboardInterrupt inside the try block, SIGTERM kills the process
SignalBeforeHandlers ==
    /\ pc = "init"
    /\ ~handlers
    /\ sigs < MaxSignals
    /\ sigs' = sigs + 1
    /\ \E sig \in {"SIGINT", "SIGTERM"} :
        IF sig = "SIGINT"
        THEN Raise("KeyboardInterrupt") /\ UNCHANGED exitStatus
        ELSE pc' = "exited" /\ exitStatus' = 143 /\ UNCHANGED raised
    /\ UNCHANGED <<no_scrubbing, history, gate, srcCreated, removeFailed,
                   cleanupFailed, inventory, flags, run, handlers, locals,
                   transfer, maint, cleanupCalls, maintCalls, creation>>

\* line 224: mode = get_backup_mode(source, destination, remote).  ok says
\* whether the listing commands returned 0 and their output was decoded
Classify ==
    /\ pc = "classify"
    /\ \E ok \in BOOLEAN, kind \in {"RuntimeError", "Exception"} :
        IF ~ok
        THEN Raise(kind) /\ UNCHANGED locals
        ELSE LET r == get_backup_mode(srcPool, dstPool, srcSnaps)
             IN  /\ kind = "RuntimeError"
                 /\ seen' = [src_images |-> srcPool, dst_images |-> dstPool,
                             listing |-> srcSnaps, read |-> TRUE]
                 /\ mode' = r
                 /\ UNCHANGED snapshot_new
                 /\ IF r.error # ""
                    THEN Raise("RuntimeError")
                    ELSE pc' = "health_local" /\ UNCHANGED raised
    /\ UNCHANGED <<no_scrubbing, history, gate, srcCreated, removeFailed,
                   cleanupFailed, inventory, flags, run, handlers, sigs, transfer,
                   exitStatus, maint, cleanupCalls, maintCalls, creation>>

\* the outputs a poll of `ceph health detail` is drawn from, by their
\* first word, and of `ceph status`, by whether it mentions scrubbing
HealthOutputs == {"HEALTH_ERR", "HEALTH_WARN", "HEALTH_OK"}
StatusOutputs == {"scrubbing", "idle"}

\* variant of the loop condition of wait_for_ceph_cluster_healthy that
\* gives up instead of polling again
health_gives_up(output) == FALSE

\* line 200: the loop polls again while the output starts with HEALTH_ERR
health_keeps_waiting(output) == output = "HEALTH_ERR"

\* line 208: the loop polls again while the output mentions scrubbing
scrubbing_keeps_waiting(output) == output = "scrubbing"

\* one poll of a wait loop: the command fails and exec_raw raises, or the
\* loop sleeps and polls again, or the loop ends and the script goes on
Poll(output, failed, waiting, next) ==
    /\ lastPoll' = IF failed THEN "failed" ELSE output
    /\ IF failed
       THEN Raise("RuntimeError") /\ polls' = 0
       ELSE IF waiting
       THEN polls < MaxPolls /\ polls' = polls + 1 /\ UNCHANGED <<pc, raised>>
       ELSE pc' = next /\ polls' = 0 /\ UNCHANGED raised

\* lines 198-202, called at 231 (local) and 232 (remote): poll
\* `ceph health detail` until it no longer starts with HEALTH_ERR
wait_for_ceph_cluster_healthy(site) ==
    /\ wait_healthy \/ no_scrubbing
    /\ pc = "health_" \o site
    /\ \E output \in HealthOutputs, failed \in BOOLEAN :
        /\ Poll(output, failed, health_keeps_waiting(output),
                IF site = Local THEN "health_remote"
                ELSE IF no_scrubbing THEN "disable_local"
                ELSE AfterGate)
        /\ gateLog' = IF failed \/ health_keeps_waiting(output) THEN gateLog
                      ELSE [gateLog EXCEPT ![site] = Append(@, "healthy")]
    /\ UNCHANGED <<no_scrubbing, history, srcCreated, removeFailed,
                   cleanupFailed, inventory, flags, run, handlers, sigs, locals,
                   transfer, exitStatus, maint, cleanupCalls, maintCalls, creation>>

\* lines 234 (local) and 235 (remote): set_ceph_scrubbing(False, site)
DisableScrubbing(site) ==
    /\ no_scrubbing
    /\ pc = "disable_" \o site
    /\ \E codes \in ExitCodes \X ExitCodes :
        /\ flags' = [flags EXCEPT ![site] = set_ceph_scrubbing(@, FALSE, codes)]
        /\ IF set_ceph_scrubbing_raises(codes)
           THEN Raise("RuntimeError") /\ UNCHANGED gateLog
           ELSE /\ pc' = IF site = Local THEN "disable_remote" ELSE "idle_local"
                /\ gateLog' = [gateLog EXCEPT ![site] = Append(@, "disable")]
                /\ UNCHANGED raised
    /\ disabled' = disabled \cup {site}
    /\ reenabled' = reenabled \ {site}
    /\ lastPoll' = "none"
    /\ UNCHANGED <<no_scrubbing, history, polls, srcCreated, removeFailed,
                   cleanupFailed, inventory, run, handlers, sigs, locals,
                   transfer, exitStatus, cleanupCalls, maintCalls, creation>>

\* lines 205-210, called at 236 (local) and 237 (remote): poll `ceph status`
\* until it no longer mentions scrubbing
wait_for_ceph_scrubbing_completion(site) ==
    /\ no_scrubbing
    /\ pc = "idle_" \o site
    /\ \E output \in StatusOutputs, failed \in BOOLEAN :
        /\ Poll(output, failed, scrubbing_keeps_waiting(output),
                IF site = Local THEN "idle_remote" ELSE AfterGate)
        /\ gateLog' = IF failed \/ scrubbing_keeps_waiting(output) THEN gateLog
                      ELSE [gateLog EXCEPT ![site] = Append(@, "idle")]
    /\ UNCHANGED <<no_scrubbing, history, srcCreated, removeFailed,
                   cleanupFailed, inventory, flags, run, handlers, sigs, locals,
                   transfer, exitStatus, maint, cleanupCalls, maintCalls, creation>>

\* lines 242-244 and 257 up to subprocess.Popen: the full branch first
\* reads the image size (ok: `rbd info` returned 0 and was decoded), then
\* either branch starts the transfer command
StartTransfer ==
    /\ pc \in {"full_transfer", "incr_transfer"}
    /\ \E ok \in BOOLEAN :
        IF pc = "full_transfer" /\ ~ok
        THEN Raise("RuntimeError")
        ELSE /\ ok
             /\ pc' = IF pc = "full_transfer" THEN "full_wait" ELSE "incr_wait"
             /\ UNCHANGED raised
    /\ lastPoll' = "none"
    /\ UNCHANGED <<no_scrubbing, history, gateLog, polls, srcCreated, removeFailed,
                   cleanupFailed, inventory, flags, run, handlers, sigs, locals,
                   transfer, exitStatus, maint, cleanupCalls, maintCalls, creation>>

\* process.wait() of the transfer command returns (exec_raw, lines 72-75).
\* st holds the exit codes of export, pv and import.  `rbd import` creates
\* the destination image; `rbd import-diff` writes into the existing one.
FinishTransfer ==
    /\ pc \in {"full_wait", "incr_wait"}
    /\ \E st \in ExitCodes \X ExitCodes \X ExitCodes :
        /\ stages' = st
        /\ returncode' = PipelineReturnCode(st)
        /\ dstPool' = IF pc = "full_wait" /\ st[3] = 0
                      THEN dstPool \cup {destination_image} ELSE dstPool
        /\ IF exec_raw_raises(PipelineReturnCode(st))
           THEN Raise("RuntimeError")
           ELSE /\ pc' = IF pc = "full_wait" THEN "full_snap_src" ELSE "incr_snap_dst"
                /\ UNCHANGED raised
    /\ UNCHANGED <<no_scrubbing, history, gate, srcCreated, removeFailed,
                   cleanupFailed, srcPool, srcSnaps, dstSnaps, flags, run, handlers,
                   sigs, locals, exitStatus, maint, cleanupCalls, maintCalls,
                   creation>>

\* the exit code of `rbd snap create image@name`: the command cannot
\* succeed on a missing image or for a name the image already carries
SnapCreateCode(images, image, snaps, name, code) ==
    IF image \notin images \/ name \in Range(snaps) THEN 1 ELSE code

\* lines 247 and 252: create_ceph_rbd_snapshot(source_pool, source_image, remote)
CreateSourceSnapshot ==
    /\ pc \in {"full_snap_src", "incr_snap_src"}
    /\ \E name \in RandomNames, code \in ExitCodes :
        IF create_raises(SnapCreateCode(srcPool, source_image, srcSnaps, name, code))
        THEN /\ Raise("RuntimeError")
             /\ createFailed' = TRUE
             /\ UNCHANGED <<srcSnaps, snapshot_new, srcCreated>>
        ELSE /\ srcSnaps' = Append(srcSnaps, name)
             /\ snapshot_new' = IF pc = "incr_snap_src" THEN name ELSE snapshot_new
             /\ srcCreated' = name
             /\ pc' = IF pc = "full_snap_src" THEN "full_snap_dst" ELSE "incr_transfer"
             /\ UNCHANGED <<raised, createFailed>>
    /\ lastPoll' = "none"
    /\ UNCHANGED <<no_scrubbing, history, gateLog, polls, removeFailed,
                   cleanupFailed, srcPool, dstPool, dstSnaps, flags, run, handlers,
                   sigs, mode, seen, transfer, exitStatus, maint, cleanupCalls,
                   maintCalls, dstCreated>>

\* lines 248 and 260: create_ceph_rbd_snapshot(destination_pool, destination_image)
CreateDestinationSnapshot ==
    /\ pc \in {"full_snap_dst", "incr_snap_dst"}
    /\ \E name \in RandomNames, code \in ExitCodes :
        IF create_raises(SnapCreateCode(dstPool, destination_image, dstSnaps, name, code))
        THEN /\ Raise("RuntimeError")
             /\ createFailed' = TRUE
             /\ UNCHANGED <<dstSnaps, dstCreated>>
        ELSE /\ dstSnaps' = Append(dstSnaps, name)
             /\ dstCreated' = TRUE
             /\ pc' = IF pc = "full_snap_dst" THEN "finally" ELSE "incr_rm"
             /\ UNCHANGED <<raised, createFailed>>
    /\ UNCHANGED <<no_scrubbing, history, gate, srcCreated, removeFailed,
                   cleanupFailed, srcPool, dstPool, srcSnaps, flags, run, handlers,
                   sigs, locals, transfer, exitStatus, maint, cleanupCalls,
                   maintCalls>>

\* line 261: remove_ceph_rbd_snapshot(source_pool, source_image, snapshot_old, remote)
RemoveOldSnapshot ==
    /\ pc = "incr_rm"
    /\ \E code \in ExitCodes :
        IF exec_raw_raises(code)
        THEN Raise("RuntimeError") /\ removeFailed' = TRUE /\ UNCHANGED srcSnaps
        ELSE /\ srcSnaps' = RemoveName(srcSnaps, mode.base_snapshot)
             /\ pc' = "finally"
             /\ UNCHANGED <<raised, removeFailed>>
    /\ UNCHANGED <<no_scrubbing, history, gate, srcCreated,
                   cleanupFailed, srcPool, dstPool, dstSnaps, flags, run, handlers,
                   sigs, locals, transfer, exitStatus, maint, cleanupCalls,
                   maintCalls, creation>>

\* cleanup (lines 213-217): with --no-scrubbing it runs
\* set_ceph_scrubbing(True, '') on the local site; command_inject keeps its
\* default in both callers.  codes are the exit codes of its two commands.
cleanup(codes) ==
    /\ cleanupCalls' = cleanupCalls + 1
    /\ cleanupFailed' = (cleanupFailed \/ (no_scrubbing /\ set_ceph_scrubbing_raises(codes)))
    /\ IF no_scrubbing
       THEN /\ flags' = [flags EXCEPT ![Local] = set_ceph_scrubbing(@, TRUE, codes)]
            /\ reenabled' = reenabled \cup {Local}
            /\ maintCalls' = maintCalls + 1
       ELSE /\ codes = <<0, 0>>
            /\ UNCHANGED <<flags, reenabled, maintCalls>>

\* whether this call of cleanup raised
cleanup_raises(codes) == no_scrubbing /\ set_ceph_scrubbing_raises(codes)

\* variant of the script's end that exits with status 1 when an except
\* clause has handled an exception
exit_status_counting_caught(caught, uncaught) ==
    IF uncaught \/ caught # "none" THEN 1 ELSE 0

\* the exit status of the interpreter at the end of the script: an
\* exception handled by an except clause (lines 266-274) is forgotten, an
\* exception that leaves the finally block is uncaught and gives status 1
exit_status(caught, uncaught) == IF uncaught THEN 1 ELSE 0

\* lines 276-277: finally: cleanup(); then the script ends
Finally ==
    /\ pc = "finally"
    /\ \E codes \in ExitCodes \X ExitCodes :
        /\ cleanup(codes)
        /\ exitStatus' = exit_status(raised, cleanup_raises(codes))
    /\ pc' = "exited"
    /\ UNCHANGED <<no_scrubbing, history, gate, srcCreated, removeFailed,
                   inventory, run, handlers, sigs, locals, transfer,
                   raised, disabled, creation>>

\* SIGINT or SIGTERM with the handler registered: the interpreter calls
\* cleanup(signum, frame) between two bytecodes, or while process.wait()
\* blocks, and resumes where it was when cleanup returns.  A RuntimeError
\* raised by cleanup surfaces at that point: inside the try block it is
\* caught at line 269, in the finally block it ends the process.
Signal ==
    /\ handlers
    /\ pc # "exited"
    /\ sigs < MaxSignals
    /\ sigs' = sigs + 1
    /\ \E codes \in ExitCodes \X ExitCodes :
        /\ cleanup(codes)
        /\ IF ~cleanup_raises(codes)
           THEN UNCHANGED <<pc, raised, exitStatus>>
           ELSE IF pc = "finally"
           THEN pc' = "exited" /\ exitStatus' = exit_status(raised, TRUE)
                /\ UNCHANGED raised
           ELSE Raise("RuntimeError") /\ UNCHANGED exitStatus
    /\ UNCHANGED <<no_scrubbing, history, gate, srcCreated, removeFailed,
                   inventory, run, handlers, locals, transfer,
                   disabled, creation>>

\* the run ended without any exception and with exit status 0 (the
\* "Done with" message of line 263 was reached)
RunSucceeded == pc = "exited" /\ raised = "none" /\ exitStatus = 0

\* the script is started again on the same clusters
NextRun ==
    /\ pc = "exited"
    /\ run < MaxRuns
    /\ run' = run + 1
    /\ pc' = "init"
    /\ handlers' = FALSE
    /\ sigs' = 0
    /\ mode' = NoMode
    /\ snapshot_new' = NoName
    /\ seen' = NoSeen
    /\ stages' = <<>>
    /\ returncode' = -1
    /\ raised' = "none"
    /\ exitStatus' = -1
    /\ disabled' = {}
    /\ reenabled' = {}
    /\ cleanupCalls' = 0
    /\ maintCalls' = 0
    /\ createFailed' = FALSE
    /\ dstCreated' = FALSE
    /\ srcCreated' = NoName
    /\ removeFailed' = FALSE
    /\ cleanupFailed' = FALSE
    /\ gateLog' = [s \in Sites |-> <<>>]
    /\ lastPoll' = "none"
    /\ polls' = 0
    /\ dstAtStart' = dstSnaps
    /\ prev' = [ran |-> TRUE,
                ok |-> RunSucceeded,
                transferFailed |-> returncode > 0,
                removeFailed |-> removeFailed,
                created |-> srcCreated]
    /\ chain' = (chain /\ RunSucceeded)
    /\ UNCHANGED <<no_scrubbing, inventory, flags>>

Next ==
    \/ RegisterHandlers
    \/ SignalBeforeHandlers
    \/ Classify
    \/ \E site \in Sites : wait_for_ceph_cluster_healthy(site)
    \/ \E site \in Sites : DisableScrubbing(site)
    \/ \E site \in Sites : wait_for_ceph_scrubbing_completion(site)
    \/ StartTransfer
    \/ FinishTransfer
    \/ CreateSourceSnapshot
    \/ CreateDestinationSnapshot
    \/ RemoveOldSnapshot
    \/ Finally
    \/ Signal
    \/ NextRun

Spec == Init /\ [][Next]_vars

\* ---------------------------------------------------------------- claims
\* what get_backup_mode found when its queries succeeded in this run
SourceSeen == seen.read /\ source_image \in seen.src_images
DestinationSeen == seen.read /\ destination_image \in seen.dst_images
DestinationMissing == seen.read /\ destination_image \notin seen.dst_images
OwnedSeen == Cardinality(OwnedIn(seen.listing))

ReturnedFull == mode.error = "" /\ mode.mode = BACKUPMODE_INITIAL
ReturnedIncremental == mode.error = "" /\ mode.mode = BACKUPMODE_INCREMENTAL
ClassificationFailed ==
    /\ mode.error # ""
    /\ mode.mode = 0
    /\ raised = "RuntimeError"
    /\ pc \in {"finally", "exited"}

TryBlockLeft == pc \in {"finally", "exited"}
TransferRunning == pc \in {"full_wait", "incr_wait"}

\* C1 as stated: source and destination exist and the source carries no
\* owned snapshot, so classification returns the initial mode without error.
C1_AsStated ==
    (SourceSeen /\ DestinationSeen /\ OwnedSeen = 0) => ReturnedFull

\* C1 amended: with the source present and no owned snapshot on it,
\* classification returns the initial mode exactly when the destination
\* does not exist; with the destination present it raises the
\* inconsistent-state error of line 155.
C1_FullOnlyWithoutDestination ==
    (SourceSeen /\ OwnedSeen = 0) =>
        IF destination_image \in seen.dst_images
        THEN /\ ClassificationFailed
             /\ mode.error = "source snapshot not found but destination does exist"
        ELSE ReturnedFull

C1_Witness ==
    /\ SourceSeen /\ DestinationMissing /\ OwnedSeen = 0
    /\ seen.listing # <<>>
    /\ ReturnedFull
    /\ pc = "full_wait"

\* C2: both images exist and the source carries exactly one owned snapshot
\* (and any foreign ones): classification returns the incremental mode and
\* its base snapshot is that owned snapshot.
C2_IncrementalBaseIsOwned ==
    (SourceSeen /\ DestinationSeen /\ OwnedSeen = 1) =>
        /\ ReturnedIncremental
        /\ OwnedIn(seen.listing) = {mode.base_snapshot}

C2_Witness ==
    /\ SourceSeen /\ DestinationSeen /\ OwnedSeen = 1
    /\ Len(seen.listing) > 1
    /\ ~Owned(Head(seen.listing))
    /\ ReturnedIncremental
    /\ pc = "incr_wait"

C3_StateAfterRejection ==
    (SourceSeen /\ OwnedSeen >= 2) =>
        /\ ClassificationFailed
        /\ returncode = -1 /\ stages = <<>>
        /\ ~createFailed /\ ~dstCreated

C3_StepKeepsInventory ==
    (SourceSeen' /\ OwnedSeen' >= 2 /\ run' = run) =>
        /\ UNCHANGED inventory
        /\ ~TransferRunning'

\* C3: with two or more owned snapshots on the source, classification fails
\* and the run changes no snapshot and no image and starts no transfer.
C3_RejectsMultipleOwned ==
    [](C3_StateAfterRejection) /\ [][C3_StepKeepsInventory]_vars

C3_Witness ==
    /\ SourceSeen /\ DestinationSeen /\ OwnedSeen >= 2
    /\ mode.error = "more than one snapshot"
    /\ pc = "exited"

\* C4 as stated: whenever the destination does not exist, classification
\* fails, whatever the number of owned snapshots, and no transfer starts.
C4_AsStated ==
    DestinationMissing => (mode.error # "" /\ ~TransferRunning)

\* C4 amended: with the destination missing, classification fails when the
\* source is missing or carries one or more owned snapshots; with the
\* source present and no owned snapshot it returns the initial mode, and
\* the full transfer's import creates the destination.  An incremental
\* transfer never starts or runs without a destination.
C4_MissingDestination ==
    /\ DestinationMissing =>
          IF source_image \in seen.src_images /\ OwnedSeen = 0
          THEN ReturnedFull
          ELSE ClassificationFailed /\ returncode = -1
    /\ pc \in {"incr_snap_src", "incr_transfer", "incr_wait"} =>
          destination_image \in dstPool

C4_Witness ==
    /\ SourceSeen /\ DestinationMissing /\ OwnedSeen = 1
    /\ mode.error = "source snapshot found but destination does not exist"
    /\ pc = "exited"

\* C5: when the export stage exits non-zero and the import stage exits
\* zero, the transfer step raises and no destination snapshot is created.
C5_ExportFailureFailsTransfer ==
    (stages # <<>> /\ stages[1] # 0 /\ stages[3] = 0) =>
        /\ TryBlockLeft
        /\ raised = "RuntimeError"
        /\ ~dstCreated

C6_StateAfterFailure ==
    /\ returncode > 0 => (TryBlockLeft /\ raised = "RuntimeError" /\ ~dstCreated)
    /\ createFailed => (TryBlockLeft /\ raised = "RuntimeError")

C6_StepAfterFailure ==
    /\ (TryBlockLeft /\ run' = run) => UNCHANGED inventory
    /\ Len(srcSnaps') < Len(srcSnaps) =>
          /\ returncode = 0
          /\ dstCreated
          /\ srcSnaps' = RemoveName(srcSnaps, mode.base_snapshot)

\* C6: once the transfer command has returned non-zero, or a snapshot
\* creation has failed, the try block is left and no snapshot is created
\* or removed in that run; the source loses a snapshot only after the
\* transfer command returned zero and the destination snapshot was created.
C6_FailureStopsMutation ==
    [](C6_StateAfterFailure) /\ [][C6_StepAfterFailure]_vars

C6_Witness ==
    /\ ReturnedIncremental
    /\ returncode = 1
    /\ snapshot_new \in Range(srcSnaps)
    /\ mode.base_snapshot \in Range(srcSnaps)
    /\ pc = "exited"

\* C7: at process exit, every site on which this run called
\* set_ceph_scrubbing(False, site) has since seen set_ceph_scrubbing(True, site).
C7_EveryDisabledSiteReenabled ==
    pc = "exited" => disabled \subseteq reenabled

\* C8: at most one call of cleanup per process issues maintenance commands.
C8_ReenableRunsOnce ==
    maintCalls <= 1

C9_StepAfterSignal ==
    (sigs > 0 /\ run' = run) =>
        /\ UNCHANGED <<srcSnaps, dstSnaps>>
        /\ (TransferRunning' => TransferRunning)

\* C9: after a signal has been delivered to a run, that run creates and
\* removes no snapshot and starts no transfer.
C9_SignalStopsReplication ==
    [][C9_StepAfterSignal]_vars

\* C10: a run in which an error was raised ends with a non-zero exit status.
C10_ErrorGivesNonZeroExit ==
    (pc = "exited" /\ raised \in {"RuntimeError", "Exception"}) => exitStatus # 0

SuccessfulIncremental == ReturnedIncremental /\ RunSucceeded

IsPrefix(a, b) == Len(a) <= Len(b) /\ SubSeq(b, 1, Len(a)) = a

\* C11 as stated: after a successful incremental run the source carries
\* exactly the new owned snapshot, the base is gone, and the destination
\* carries exactly one owned snapshot.
C11_AsStated ==
    SuccessfulIncremental =>
        /\ OwnedIn(srcSnaps) = {snapshot_new}
        /\ mode.base_snapshot \notin Range(srcSnaps)
        /\ Cardinality(OwnedIn(dstSnaps)) = 1

\* C11 amended: after a successful incremental run the source carries
\* exactly the new owned snapshot and the base is gone; the destination
\* keeps every snapshot it had and carries one owned snapshot more than when
\* the run started.
C11_DestinationGainsOne ==
    SuccessfulIncremental =>
        /\ OwnedIn(srcSnaps) = {snapshot_new}
        /\ snapshot_new # mode.base_snapshot
        /\ mode.base_snapshot \notin Range(srcSnaps)
        /\ IsPrefix(dstAtStart, dstSnaps)
        /\ Cardinality(OwnedIn(dstSnaps)) = Cardinality(OwnedIn(dstAtStart)) + 1

C11_Witness ==
    /\ SuccessfulIncremental
    /\ run = 2 /\ prev.ok
    /\ Cardinality(OwnedIn(dstAtStart)) = 1
    /\ Cardinality(OwnedIn(dstSnaps)) = 2
    /\ OwnedIn(srcSnaps) = {snapshot_new}

\* the owned snapshots the source carried when the run started: nothing
\* changes them before get_backup_mode has read the listing
StartOwned ==
    IF seen.read THEN OwnedSeen ELSE Cardinality(OwnedIn(srcSnaps))

\* C12 as stated: in every state of a run that started with at most one
\* owned snapshot on the source, the source carries at most one.
C12_AsStated ==
    StartOwned <= 1 => Cardinality(OwnedIn(srcSnaps)) <= 1

\* C12 amended: in every state of a run that started with at most one owned
\* snapshot on the source, the source carries at most two; it carries two
\* (the base and the new one) only in an incremental run, from the creation
\* of the new snapshot to the removal of the base, and they stay when the
\* run fails in between.
C12_AtMostTwoOwned ==
    StartOwned <= 1 =>
        /\ Cardinality(OwnedIn(srcSnaps)) <= 2
        /\ Cardinality(OwnedIn(srcSnaps)) = 2 =>
              /\ ReturnedIncremental
              /\ OwnedIn(srcSnaps) = {mode.base_snapshot, snapshot_new}
              /\ \/ pc \in {"incr_transfer", "incr_wait", "incr_snap_dst", "incr_rm"}
                 \/ TryBlockLeft /\ raised = "RuntimeError"

C12_Witness ==
    /\ StartOwned = 1
    /\ Cardinality(OwnedIn(srcSnaps)) = 2
    /\ returncode = 1
    /\ pc = "exited"

GateOrder == <<"healthy", "disable", "idle">>
HealthWaits == {"health_local", "health_remote"}
IdleWaits == {"idle_local", "idle_remote"}
TransferStarted ==
    pc \in {"full_wait", "full_snap_src", "full_snap_dst",
            "incr_wait", "incr_snap_dst", "incr_rm"} \/ returncode # -1

C13_GateBeforeTransfer ==
    /\ \A s \in Sites :
          IsPrefix(gateLog[s], IF no_scrubbing THEN GateOrder ELSE <<"healthy">>)
    /\ no_scrubbing /\ TransferStarted => \A s \in Sites : gateLog[s] = GateOrder

C13_StepKeepsWaiting ==
    /\ pc \in HealthWaits /\ sigs' = sigs /\ lastPoll' = "HEALTH_ERR" =>
          pc' = pc /\ gateLog' = gateLog
    /\ pc \in IdleWaits /\ sigs' = sigs /\ lastPoll' = "scrubbing" =>
          pc' = pc /\ gateLog' = gateLog

\* C13: with no-scrubbing requested each site goes through wait-healthy,
\* then disable maintenance, then wait-idle, in that order; the transfer is
\* not started before both sites have gone through all three; and a poll
\* that reports HEALTH_ERR, or a status that mentions scrubbing, keeps the
\* gate waiting where it is.
C13_GateOrderAndWaiting ==
    []C13_GateBeforeTransfer /\ [][C13_StepKeepsWaiting]_vars

C13_Witness ==
    /\ no_scrubbing
    /\ pc = "idle_remote"
    /\ lastPoll = "scrubbing"
    /\ polls = MaxPolls
    /\ gateLog[Local] = GateOrder
    /\ gateLog[Remote] = <<"healthy", "disable">>

FlagsSet(site) == flags[site].noscrub /\ flags[site].nodeep_scrub
FlagsUnset(site) == ~flags[site].noscrub /\ ~flags[site].nodeep_scrub

\* C14: with no-scrubbing requested the flags noscrub and nodeep-scrub are
\* set on both clusters while the transfer runs, and once the finalizer has
\* run without error they are unset again.
C14_FlagsSetDuringTransfer ==
    /\ no_scrubbing /\ TransferRunning /\ sigs = 0 =>
          \A s \in Sites : FlagsSet(s)
    /\ no_scrubbing /\ RunSucceeded /\ sigs = 0 =>
          \A s \in Sites : FlagsUnset(s)

\* the removal of the old source snapshot failed in this run, the run has
\* ended and no call of cleanup failed
RemovalFailedOnly == removeFailed /\ pc = "exited" /\ ~cleanupFailed

C15_AfterFailedRemoval ==
    /\ removeFailed =>
          /\ ReturnedIncremental
          /\ returncode = 0
          /\ dstCreated
          /\ destination_image \in dstPool
          /\ IsPrefix(dstAtStart, dstSnaps)
          /\ Len(dstSnaps) = Len(dstAtStart) + 1
          /\ OwnedIn(srcSnaps) = {mode.base_snapshot, snapshot_new}
          /\ Cardinality(OwnedIn(srcSnaps)) = 2
    /\ RemovalFailedOnly => exitStatus = 0
    /\ prev.removeFailed /\ seen.read =>
          /\ OwnedSeen = 2
          /\ mode.error = "more than one snapshot"
          /\ ClassificationFailed

C15_StepAfterFailedRemoval ==
    removeFailed => dstPool' = dstPool /\ dstSnaps' = dstSnaps /\ srcSnaps' = srcSnaps

C16_ResumableAfterFailedTransfer ==
    prev.transferFailed /\ seen.read => mode.error = ""

\* C17: in every run the new source snapshot is created before the
\* transfer starts, the destination snapshot is created only after the
\* transfer has ended successfully, and the old source snapshot is removed
\* only after the destination snapshot has been created.
C17_SnapshotBeforeTransfer ==
    /\ TransferRunning => srcCreated # NoName
    /\ dstCreated => returncode = 0
    /\ ReturnedIncremental /\ mode.base_snapshot \notin Range(srcSnaps) => dstCreated

\* C18: cleanup runs the ceph osd flag commands only in a run that has run
\* set_ceph_scrubbing(False) on some site before.
C18_ReenableOnlyAfterDisable ==
    maintCalls > 0 => disabled # {}

C19_StepDuringTransfer ==
    TransferRunning /\ TransferRunning' =>
        flags' = flags /\ maintCalls' = maintCalls

\* C19: while the transfer command is in flight no other command that
\* changes a cluster is run, also when a signal arrives during the transfer.
C19_NothingElseDuringTransfer == [][C19_StepDuringTransfer]_vars

\* C20: when the first run found no owned snapshot and no destination (or
\* the one owned snapshot and the destination a successful run leaves) and
\* every run so far succeeded, the next run's get_backup_mode returns the
\* incremental mode with the source snapshot the preceding run created as
\* its base.
C20_NextRunContinuesChain ==
    chain /\ run > 1 /\ seen.read =>
        /\ prev.ok
        /\ prev.created # NoName
        /\ ReturnedIncremental
        /\ mode.base_snapshot = prev.created
        /\ OwnedIn(seen.listing) = {prev.created}

C20_Witness ==
    /\ chain
    /\ run = 2
    /\ SuccessfulIncremental
    /\ prev.ok
    /\ mode.base_snapshot = prev.created
    /\ <<"x", "p">> \in Range(srcSnaps)

====
